---- MODULE Spec2Model ----
(***************************************************************************)
(* NEXUS-RSI wave orchestration engine.                                    *)
(*                                                                         *)
(* State machine of src/wave/wave_orchestrator.py (WaveOrchestrator) and   *)
(* src/wave/wave_integration.py (WaveAgentBridge) over the agent table of  *)
(* src/agents/master_orchestrator.py (AgentOrchestrator).                  *)
(*                                                                         *)
(* One caller makes one call per behaviour: execute_wave,                  *)
(* run_progressive_waves or execute_wave_with_agents.  Every persistence   *)
(* write (a committed INSERT or UPDATE) and every start_agent call is one  *)
(* step, so the tables and the agent table are observable between any two  *)
(* of them.  Scores are in hundredths.                                     *)
(*                                                                         *)
(* Spec          the three entry points on the shipped configuration       *)
(* SpecRollback  execute_wave with rollback_enabled open                   *)
(* SpecBridge    execute_wave_with_agents with the parallel flags open     *)
(* SpecContexts  the contexts run_enterprise_wave creates for its targets  *)
(* SpecSelect    select_strategy and select_adaptive_phases on profiles    *)
(* SpecFaults    execute_wave with persistence writes that raise           *)
(* SpecEnterprise run_enterprise_wave: the waves of the targets on the     *)
(*               asyncio event loop                                        *)
(* SpecAnalyze   analyze_complexity on targets, then select_strategy       *)
(* SpecTermination  Spec with the orchestrator's coroutine scheduled      *)
(*               until it returns                                          *)
(***************************************************************************)
EXTENDS Integers, Sequences, FiniteSets, TLC

\* Largest `iterations` argument a caller passes to run_progressive_waves.
MaxIterations == 3

-----------------------------------------------------------------------------
(* Enumerations and configuration tables                                   *)

REVIEW == "review"
PLANNING == "planning"
IMPLEMENTATION == "implementation"
VALIDATION == "validation"
OPTIMIZATION == "optimization"

\* list(WavePhase): the members in declaration order.
WavePhase == <<REVIEW, PLANNING, IMPLEMENTATION, VALIDATION, OPTIMIZATION>>

WaveStrategy == {"progressive", "systematic", "adaptive", "enterprise"}

\* The table built by WaveOrchestrator.__init__, restricted to the keys the
\* engine reads ('iterations', 'parallel_execution' and 'distributed' are
\* never read by any code path).
DefaultStrategyConfigs ==
    [s \in WaveStrategy |->
        CASE s = "progressive" ->
                [phases |-> <<REVIEW, IMPLEMENTATION, VALIDATION>>,
                 checkpoint_frequency |-> "per_iteration",
                 rollback_enabled |-> TRUE]
          [] s = "systematic" ->
                [phases |-> WavePhase,
                 checkpoint_frequency |-> "per_phase",
                 rollback_enabled |-> TRUE]
          [] s = "adaptive" ->
                [phases |-> <<>>,
                 checkpoint_frequency |-> "adaptive",
                 rollback_enabled |-> TRUE]
          [] s = "enterprise" ->
                [phases |-> WavePhase,
                 checkpoint_frequency |-> "continuous",
                 rollback_enabled |-> TRUE]]

AgentKeys == {"performance", "security", "monitor", "quality"}

\* WaveAgentBridge.phase_agent_map
DefaultPhaseAgentMap ==
    [p \in {REVIEW, PLANNING, IMPLEMENTATION, VALIDATION, OPTIMIZATION} |->
        CASE p = REVIEW ->
                [primary |-> "quality", secondary |-> <<"security", "performance">>,
                 parallel |-> TRUE]
          [] p = PLANNING ->
                [primary |-> "performance", secondary |-> <<"quality">>,
                 parallel |-> FALSE]
          [] p = IMPLEMENTATION ->
                [primary |-> "quality", secondary |-> <<"security">>,
                 parallel |-> FALSE]
          [] p = VALIDATION ->
                [primary |-> "security", secondary |-> <<"quality", "monitor">>,
                 parallel |-> TRUE]
          [] p = OPTIMIZATION ->
                [primary |-> "performance", secondary |-> <<"monitor">>,
                 parallel |-> TRUE]]

-----------------------------------------------------------------------------
(* Helpers                                                                 *)

\* Python `x in list`
InList(x, s) == \E i \in 1..Len(s) : s[i] = x

Range(s) == {s[i] : i \in 1..Len(s)}

\* Position of x in the list s (0 when absent)
IndexOf(x, s) == IF InList(x, s) THEN CHOOSE i \in 1..Len(s) : s[i] = x ELSE 0

EmptyMap == <<>>

\* dict[key] = value
Put(map, key, value) ==
    [k \in (DOMAIN map) \cup {key} |-> IF k = key THEN value ELSE map[k]]

-----------------------------------------------------------------------------
VARIABLES
    strategy_configs,  \* WaveOrchestrator.strategy_configs
    phase_agent_map,   \* WaveAgentBridge.phase_agent_map
    waves,             \* table waves: wave_id -> row
    wave_phases,       \* table wave_phases: rows in autoincrement order
    wave_checkpoints,  \* table wave_checkpoints: rows in autoincrement order
    agents,            \* AgentOrchestrator.agents[key]['status']
    call,              \* the entry point the caller invoked, with its arguments
    pc,                \* position of the running coroutine
    context,           \* the WaveContext passed to the call
    phases,            \* local `phases` of execute_wave / execute_wave_with_agents
    idx,               \* position of the `for phase in phases` loop
    results,           \* local `results` of execute_phase (the dict it returns)
    wave_results,      \* local `wave_results` of execute_wave
    iter,              \* loop variable i+1 of run_progressive_waves
    all_results,       \* local `all_results` of run_progressive_waves
    invoked,           \* start_agent calls of the current phase, in call order
    bridge_results,    \* local `results` of execute_wave_with_agents
    clock,             \* the reading time.time() returns
    targets,           \* argument `targets` of run_enterprise_wave
    contexts,          \* the WaveContexts run_enterprise_wave has created
    write_errors,      \* the persistence writes that raised, in order
    tasks,             \* frames of the coroutines handed to asyncio.gather
    ready,             \* the event loop's queue of callbacks, oldest first
    sleeping,          \* waves waiting in asyncio.sleep(1), by deadline
    current,           \* the wave whose coroutine the event loop is running
    target,            \* argument `target` of analyze_complexity
    profiles           \* the tuples analyze_complexity returned, in call order

vars == <<strategy_configs, phase_agent_map, waves, wave_phases,
          wave_checkpoints, agents, call,
          pc, context, phases, idx, results, wave_results, iter, all_results,
          invoked, bridge_results, clock, targets, contexts, write_errors,
          tasks, ready, sleeping, current, target, profiles>>

dbVars == <<waves, wave_phases, wave_checkpoints>>
progVars == <<iter, all_results>>
bridgeVars == <<agents, invoked, bridge_results>>
cfgVars == <<strategy_configs, phase_agent_map>>
loopVars == <<tasks, ready, sleeping, current>>
analyzeVars == <<target, profiles>>
auxVars == <<write_errors, loopVars, analyzeVars>>
fanVars == <<clock, targets, contexts>>

-----------------------------------------------------------------------------
(* Inputs                                                                  *)

\* complexity_score values on each side of the 0.6 and 0.7 thresholds
ComplexityScores == {50, 65, 75}

OperationLists == {<<>>, <<"testing">>, <<"optimization">>}

\* A wave id is the caller's base id followed by the "_iter{N}" suffixes
\* appended to it so far.
BaseWaveId == [base |-> "prog_demo", iters |-> <<>>]

\* WaveContext(...) as constructed by a caller: defaults for current_phase,
\* phase_results and metrics.
WaveContext(s, c, ops) ==
    [wave_id |-> BaseWaveId,
     strategy |-> s,
     complexity_score |-> c,
     file_count |-> 50,
     operation_types |-> ops,
     domains |-> <<"backend">>,
     current_phase |-> REVIEW,
     phase_results |-> EmptyMap,
     metrics |-> EmptyMap]

\* The contexts a caller passes.  Only the adaptive strategy reads the
\* profile, so the other strategies are run on one profile.
Contexts ==
    {WaveContext("adaptive", c, ops) :
        c \in ComplexityScores, ops \in OperationLists}
    \cup {WaveContext(s, 75, <<"optimization">>) :
            s \in WaveStrategy \ {"adaptive"}}

NoContext == [wave_id |-> BaseWaveId, strategy |-> "none"]
NoResults == [phase |-> "none", status |-> "none", performance_gain |-> "absent"]
NoWaveResults ==
    [wave_id |-> BaseWaveId, phases |-> EmptyMap, phases_completed |-> 0,
     success_rate |-> [num |-> 0, den |-> 1]]

\* No call of analyze_complexity has been made
NoTarget == [kind |-> "none"]

NoBridgeResults ==
    [phase_results |-> EmptyMap, overall_score |-> [num |-> 0, den |-> 1],
     status |-> "none"]

-----------------------------------------------------------------------------
(* Pure functions of the orchestrator                                      *)

\* A planner that appends PLANNING after IMPLEMENTATION
select_adaptive_phases_PlanLate(ctx) ==
    <<REVIEW, IMPLEMENTATION>>
    \o (IF ctx.complexity_score > 70 THEN <<PLANNING>> ELSE <<>>)
    \o (IF InList("testing", ctx.operation_types) \/ ctx.complexity_score > 60
        THEN <<VALIDATION>> ELSE <<>>)
    \o (IF InList("optimization", ctx.operation_types)
           \/ InList("performance_tuning", ctx.operation_types)
        THEN <<OPTIMIZATION>> ELSE <<>>)

\* select_adaptive_phases, lines 494-510
select_adaptive_phases(ctx) ==
    <<REVIEW>>
    \o (IF ctx.complexity_score > 70 THEN <<PLANNING>> ELSE <<>>)
    \o <<IMPLEMENTATION>>
    \o (IF InList("testing", ctx.operation_types) \/ ctx.complexity_score > 60
        THEN <<VALIDATION>> ELSE <<>>)
    \o (IF InList("optimization", ctx.operation_types)
           \/ InList("performance_tuning", ctx.operation_types)
        THEN <<OPTIMIZATION>> ELSE <<>>)

\* A selector that tests the adaptive rule before the enterprise rule
select_strategy_AdaptiveFirst(ctx) ==
    IF Len(ctx.domains) > 2 /\ Len(ctx.operation_types) > 3 THEN "adaptive"
    ELSE IF ctx.file_count > 100 /\ ctx.complexity_score > 70 THEN "enterprise"
    ELSE IF ctx.complexity_score > 80
            /\ InList("security_audit", ctx.operation_types) THEN "systematic"
    ELSE IF InList("optimization", ctx.operation_types)
            \/ InList("refactoring", ctx.operation_types) THEN "progressive"
    ELSE "systematic"

\* select_strategy, lines 236-256: a chain of `if ...: return`
select_strategy(ctx) ==
    IF ctx.file_count > 100 /\ ctx.complexity_score > 70 THEN "enterprise"
    ELSE IF Len(ctx.domains) > 2 /\ Len(ctx.operation_types) > 3 THEN "adaptive"
    ELSE IF ctx.complexity_score > 80
            /\ InList("security_audit", ctx.operation_types) THEN "systematic"
    ELSE IF InList("optimization", ctx.operation_types)
            \/ InList("refactoring", ctx.operation_types) THEN "progressive"
    ELSE "systematic"

\* phases = strategy_config['phases'], replaced for the adaptive strategy
PhaseListOf(ctx) ==
    IF ctx.strategy = "adaptive"
    THEN select_adaptive_phases(ctx)
    ELSE strategy_configs[ctx.strategy].phases

\* strategy_config['checkpoint_frequency'] in ['per_phase', 'continuous']
CheckpointConfigured(cfg) ==
    cfg.checkpoint_frequency \in {"per_phase", "continuous"}

\* The row create_checkpoint inserts: json.dumps copies the state at the call.
CheckpointRow(ctx, phase) ==
    [wave_id |-> ctx.wave_id,
     phase |-> phase,
     state_snapshot |-> [phase |-> phase,
                         phase_results |-> ctx.phase_results,
                         metrics |-> ctx.metrics],
     can_rollback |-> TRUE]

create_checkpoint(ctx, phase) ==
    wave_checkpoints' = Append(wave_checkpoints, CheckpointRow(ctx, phase))

-----------------------------------------------------------------------------
\* Everything but the configuration table, before any call
InitState ==
    /\ waves = EmptyMap
    /\ wave_phases = <<>>
    /\ wave_checkpoints = <<>>
    /\ agents = [k \in AgentKeys |-> "inactive"]
    /\ call = [name |-> "none", iterations |-> 0]
    /\ pc = "idle"
    /\ context = NoContext
    /\ phases = <<>>
    /\ idx = 0
    /\ results = NoResults
    /\ wave_results = NoWaveResults
    /\ iter = 0
    /\ all_results = <<>>
    /\ invoked = <<>>
    /\ bridge_results = NoBridgeResults
    /\ clock = 0
    /\ targets = <<>>
    /\ contexts = <<>>
    /\ write_errors = <<>>
    /\ tasks = <<>>
    /\ ready = <<>>
    /\ sleeping = <<>>
    /\ current = 0
    /\ target = NoTarget
    /\ profiles = <<>>

Init ==
    /\ strategy_configs = DefaultStrategyConfigs
    /\ phase_agent_map = DefaultPhaseAgentMap
    /\ InitState

\* The caller: await orchestrator.execute_wave(context)
Call_execute_wave ==
    /\ pc = "idle"
    /\ \E ctx \in Contexts :
          /\ context' = ctx
          /\ call' = [name |-> "execute_wave", iterations |-> 0]
    /\ pc' = "ew_begin"
    /\ UNCHANGED <<fanVars, cfgVars, auxVars, dbVars, progVars, bridgeVars, phases, idx,
                   results, wave_results>>

-----------------------------------------------------------------------------
(* WaveOrchestrator.execute_wave                                           *)

\* A rate taken over the five phases of the enumeration, whatever the list
SuccessRate_OfAllPhases(completed, plist) ==
    [num |-> completed, den |-> Cardinality(Range(WavePhase))]

\* wave_results['metrics']['success_rate']: phases_completed / len(phases)
\* if phases else 0, kept as an exact fraction.
SuccessRate(completed, plist) ==
    IF Len(plist) > 0
    THEN [num |-> completed, den |-> Len(plist)]
    ELSE [num |-> 0, den |-> 1]

\* success_rate == 1.0
IsOne(rate) == rate.num = rate.den

\* A final UPDATE that leaves the status column as the INSERT set it
WaveStatus_InProgress(rate) == "in_progress"

\* A status test that accepts any progress as success
WaveStatus_AnyProgress(rate) == IF rate.num > 0 THEN "completed" ELSE "partial"

\* 'completed' if success_rate == 1.0 else 'partial'
WaveStatus(rate) == IF IsOne(rate) THEN "completed" ELSE "partial"

\* A loop that never breaks on a failed phase
ShouldBreak_Never(status, cfg) == FALSE

\* A loop that breaks on every failed phase, whatever the configuration
ShouldBreak_Always(status, cfg) == status = "failed"

\* phase_results['status'] == 'failed' and strategy_config['rollback_enabled']
ShouldBreak(status, cfg) == status = "failed" /\ cfg.rollback_enabled

\* A loop that steps over every other element
NextIdx_Skip(i) == i + 2

\* `for phase in phases`: the position of the next element
NextIdx(i) == i + 1

\* Lines 409-443 for a recognized strategy: select the phase list,
\* initialise wave_results, insert the waves row.  wave_id is the primary
\* key of the table: inserting an id that is already there raises
\* sqlite3.IntegrityError out of execute_wave.
execute_wave_Insert ==
    /\ phases' = PhaseListOf(context)
    /\ idx' = 0
    /\ wave_results' = [wave_id |-> context.wave_id, phases |-> EmptyMap,
                        phases_completed |-> 0,
                        success_rate |-> [num |-> 0, den |-> 1]]
    /\ IF context.wave_id \in DOMAIN waves
       THEN /\ pc' = "raised"
            /\ UNCHANGED waves
       ELSE /\ waves' = Put(waves, context.wave_id,
                            [strategy |-> context.strategy,
                             status |-> "in_progress",
                             phases_completed |-> 0,
                             total_phases |-> Len(PhaseListOf(context)),
                             ended |-> FALSE])
            /\ pc' = "ew_loop"

\* An execute_wave that inserts the waves row before it looks the strategy
\* up in strategy_configs
execute_wave_Begin_InsertFirst ==
    /\ pc = "ew_begin"
    /\ IF context.strategy \in DOMAIN strategy_configs
       THEN execute_wave_Insert
       ELSE /\ waves' = Put(waves, context.wave_id,
                            [strategy |-> context.strategy,
                             status |-> "in_progress",
                             phases_completed |-> 0,
                             total_phases |-> 0,
                             ended |-> FALSE])
            /\ pc' = "raised"
            /\ UNCHANGED <<phases, idx, wave_results>>
    /\ UNCHANGED <<fanVars, cfgVars, auxVars, wave_phases, wave_checkpoints,
                   call, context, results, progVars, bridgeVars>>

\* Lines 407-443.  The strategy is looked up first (context.strategy.value
\* at line 407, self.strategy_configs[context.strategy] at line 409): a
\* strategy that is no key of the table raises AttributeError or KeyError
\* out of execute_wave before anything else is done.
execute_wave_Begin ==
    /\ pc = "ew_begin"
    /\ IF context.strategy \in DOMAIN strategy_configs
       THEN execute_wave_Insert
       ELSE /\ pc' = "raised"
            /\ UNCHANGED <<phases, idx, wave_results, waves>>
    /\ UNCHANGED <<fanVars, cfgVars, auxVars, wave_phases, wave_checkpoints,
                   call, context, results, progVars, bridgeVars>>

\* Lines 446-447: take the next phase of the list, or leave the loop.
execute_wave_NextPhase ==
    /\ pc = "ew_loop"
    /\ IF NextIdx(idx) <= Len(phases)
       THEN /\ idx' = NextIdx(idx)
            /\ context' = [context EXCEPT !.current_phase = phases[NextIdx(idx)]]
            /\ pc' = IF CheckpointConfigured(strategy_configs[context.strategy])
                     THEN "ew_checkpoint" ELSE "ep_insert"
       ELSE /\ pc' = "ew_final"
            /\ UNCHANGED <<idx, context>>
    /\ UNCHANGED <<fanVars, cfgVars, auxVars, dbVars, call, phases, results,
                   wave_results,
                   progVars, bridgeVars>>

\* Lines 449-451: await self.create_checkpoint(context, phase)
execute_wave_Checkpoint ==
    /\ pc = "ew_checkpoint"
    /\ create_checkpoint(context, phases[idx])
    /\ pc' = "ep_insert"
    /\ UNCHANGED <<fanVars, cfgVars, auxVars, waves, wave_phases, call, context, phases,
                   idx, results, wave_results, progVars, bridgeVars>>

\* The `results` dict of execute_phase once the phase body has run: the
\* phase-specific payload is filled in before the completion write, so it is
\* present whether that write succeeds (line 366) or raises (line 385).
PhaseResults(phase, status) ==
    [phase |-> phase,
     status |-> status,
     performance_gain |-> IF phase = OPTIMIZATION THEN "35%" ELSE "absent"]

\* execute_phase, lines 284-318: results['status'] = 'in_progress' and the
\* wave_phases row is inserted.
execute_phase_Start ==
    /\ pc = "ep_insert"
    /\ results' = [phase |-> phases[idx], status |-> "in_progress",
                   performance_gain |-> "absent"]
    /\ wave_phases' = Append(wave_phases,
                             [wave_id |-> context.wave_id,
                              phase |-> phases[idx],
                              status |-> "in_progress",
                              ended |-> FALSE])
    /\ pc' = "ep_work"
    /\ UNCHANGED <<fanVars, cfgVars, auxVars, waves, wave_checkpoints, call, context,
                   phases, idx, wave_results, progVars, bridgeVars>>

\* execute_phase returning before the phase's outcome is set: the result
\* keeps the status 'in_progress'.
execute_phase_ReturnEarly ==
    /\ pc = "ep_work"
    /\ results' = PhaseResults(phases[idx], "in_progress")
    /\ pc' = "ew_record"
    /\ UNCHANGED <<fanVars, cfgVars, auxVars, dbVars, call, context, phases, idx,
                   wave_results, progVars, bridgeVars>>

\* Lines 317-318: phase_id = conn.cursor().lastrowid.  The cursor is a new
\* one that has executed no INSERT, so its lastrowid is None (0 on older
\* interpreters): never the id of a row, which start at 1.
phase_id == 0

\* UPDATE wave_phases SET status = ?, end_time = ? WHERE id = ?
UpdatePhaseRow(rows, id, status) ==
    [i \in DOMAIN rows |->
        IF i = id THEN [rows[i] EXCEPT !.status = status, !.ended = TRUE]
                  ELSE rows[i]]

\* execute_phase, lines 320-403: the try block ends with results['status'] =
\* 'completed' and the UPDATE of the row phase_id, or an exception inside it
\* takes the except branch, which sets 'failed' and issues the same UPDATE.
execute_phase_Finish ==
    /\ pc = "ep_work"
    /\ \E status \in {"completed", "failed"} :
          /\ results' = PhaseResults(phases[idx], status)
          /\ wave_phases' = UpdatePhaseRow(wave_phases, phase_id, status)
    /\ pc' = "ew_record"
    /\ UNCHANGED <<fanVars, cfgVars, auxVars, waves, wave_checkpoints, call, context,
                   phases, idx, wave_results, progVars, bridgeVars>>

\* A counter that counts every completed phase twice
CountPhase_Twice(n, status) == IF status = "completed" THEN n + 2 ELSE n

\* Lines 458-460: `if phase_results['status'] == 'completed':` the counter
\* phases_completed goes up by one
CountPhase(n, status) == IF status = "completed" THEN n + 1 ELSE n

\* Lines 455-466: record the phase result, count it, break on failure.
execute_wave_Record ==
    /\ pc = "ew_record"
    /\ wave_results' =
          [wave_results EXCEPT
              !.phases = Put(@, phases[idx], results),
              !.phases_completed = CountPhase(@, results.status)]
    /\ context' = [context EXCEPT
                      !.phase_results = Put(@, phases[idx], results)]
    /\ pc' = IF ShouldBreak(results.status, strategy_configs[context.strategy])
             THEN "ew_final" ELSE "ew_loop"
    /\ UNCHANGED <<fanVars, cfgVars, auxVars, dbVars, call, phases, idx, results,
                   progVars, bridgeVars>>

\* Lines 468-492: final metrics, update of the waves row, return.
execute_wave_Finish ==
    /\ pc = "ew_final"
    /\ LET rate == SuccessRate(wave_results.phases_completed, phases) IN
          /\ wave_results' = [wave_results EXCEPT !.success_rate = rate]
          /\ waves' = [waves EXCEPT ![context.wave_id] =
                          [@ EXCEPT !.status = WaveStatus(rate),
                                    !.phases_completed =
                                        wave_results.phases_completed,
                                    !.ended = TRUE]]
    /\ pc' = IF call.name = "run_progressive_waves" THEN "pw_after" ELSE "done"
    /\ UNCHANGED <<fanVars, cfgVars, auxVars, wave_phases, wave_checkpoints, call,
                   context,
                   phases, idx, results, progVars, bridgeVars>>

-----------------------------------------------------------------------------
(* WaveOrchestrator.run_progressive_waves                                  *)

\* The caller: await orchestrator.run_progressive_waves(context, iterations)
Call_run_progressive_waves ==
    /\ pc = "idle"
    /\ \E ctx \in Contexts, n \in 1..MaxIterations :
          /\ context' = ctx
          /\ call' = [name |-> "run_progressive_waves", iterations |-> n]
    /\ iter' = 0
    /\ all_results' = <<>>
    /\ pc' = "pw_loop"
    /\ UNCHANGED <<fanVars, cfgVars, auxVars, dbVars, bridgeVars, phases, idx, results,
                   wave_results>>

\* f"{context.wave_id}_iter{i+1}": the suffix is appended to the id the
\* context holds at that time.
IterWaveId(wave_id, n) == [wave_id EXCEPT !.iters = Append(@, n)]

\* Lines 517-524: next iteration (rename the context, call execute_wave) or
\* return all_results.
run_progressive_waves_NextIteration ==
    /\ pc = "pw_loop"
    /\ IF iter < call.iterations
       THEN /\ iter' = iter + 1
            /\ context' = [context EXCEPT
                              !.wave_id = IterWaveId(@, iter + 1)]
            /\ pc' = "ew_begin"
       ELSE /\ pc' = "done"
            /\ UNCHANGED <<iter, context>>
    /\ UNCHANGED <<fanVars, cfgVars, auxVars, dbVars, call, phases, idx, results,
                   wave_results, all_results, bridgeVars>>

\* results['phases'].get('optimization', {}).get('optimization', {})
\*     .get('performance_gain', '0%')
Improvement(wr) ==
    IF OPTIMIZATION \in DOMAIN wr.phases
       /\ wr.phases[OPTIMIZATION].performance_gain # "absent"
    THEN wr.phases[OPTIMIZATION].performance_gain
    ELSE "0%"

\* A convergence test that does not look at the success rate
Converged_AnyRate(wr) == Improvement(wr) = "0%"

\* A loop that never stops on convergence
Converged_Never(wr) == FALSE

\* Lines 527-532: the convergence test
Converged(wr) == IsOne(wr.success_rate) /\ Improvement(wr) = "0%"

\* Lines 525-534: collect the pass, stop on convergence.
run_progressive_waves_AfterPass ==
    /\ pc = "pw_after"
    /\ all_results' = Append(all_results, wave_results)
    /\ pc' = IF Converged(wave_results) THEN "done" ELSE "pw_loop"
    /\ UNCHANGED <<fanVars, cfgVars, auxVars, dbVars, call, context, phases, idx,
                   results,
                   wave_results, iter, bridgeVars>>

-----------------------------------------------------------------------------
(* AgentOrchestrator                                                       *)

\* start_agent: the agent's status becomes 'active' when its script is
\* launched (return True); a missing script or a raised exception leaves the
\* table as it was (return False).
start_agent(table, agent_key, launched) ==
    IF launched THEN [table EXCEPT ![agent_key] = "active"] ELSE table

get_agent_score(table, agent_key) ==
    IF table[agent_key] = "active" THEN 85 ELSE 50

-----------------------------------------------------------------------------
(* WaveAgentBridge.execute_wave_with_agents                                *)

\* The caller: await bridge.execute_wave_with_agents(context)
Call_execute_wave_with_agents ==
    /\ pc = "idle"
    /\ \E ctx \in Contexts :
          /\ context' = ctx
          /\ call' = [name |-> "execute_wave_with_agents", iterations |-> 0]
    /\ pc' = "br_begin"
    /\ UNCHANGED <<fanVars, cfgVars, auxVars, dbVars, progVars, bridgeVars, phases, idx,
                   results, wave_results>>

\* Lines 74-87
bridge_Begin ==
    /\ pc = "br_begin"
    /\ phases' = PhaseListOf(context)
    /\ idx' = 0
    /\ bridge_results' = NoBridgeResults
    /\ pc' = "br_loop"
    /\ UNCHANGED <<fanVars, cfgVars, auxVars, dbVars, call, context, results,
                   wave_results,
                   progVars, agents, invoked>>

\* Lines 90-97: take the next phase and its agent configuration, or leave
\* the loop.
bridge_NextPhase ==
    /\ pc = "br_loop"
    /\ IF NextIdx(idx) <= Len(phases)
       THEN /\ idx' = NextIdx(idx)
            /\ pc' = "br_primary"
       ELSE /\ pc' = "br_final"
            /\ UNCHANGED idx
    /\ invoked' = <<>>
    /\ UNCHANGED <<fanVars, cfgVars, auxVars, dbVars, call, context, phases, results,
                   wave_results, progVars, agents, bridge_results>>

\* One start_agent call of the phase: the agent, its role, and what the
\* call returned ('pending' while the coroutine has been created and has
\* not run)
Invocation(agent, role, returned) ==
    [agent |-> agent, role |-> role, returned |-> returned]

\* The calls made for secondary agents, in call order
Secondaries(calls) == SelectSeq(calls, LAMBDA r : r.role = "secondary")

\* start_agent returns True after launching the script, False otherwise
Returned(launched) == IF launched THEN "True" ELSE "False"

\* A bridge that hands the secondary agents to gather in every phase
UseGather_Always(cfg) == TRUE

\* A bridge that starts the secondary agents one by one in every phase
UseGather_Never(cfg) == FALSE

\* Line 103: `if parallel:`
UseGather(cfg) == cfg.parallel

\* A bridge that goes on to the secondary agents without starting the
\* primary agent
bridge_SkipPrimary ==
    /\ pc = "br_primary"
    /\ pc' = IF UseGather(phase_agent_map[phases[idx]])
             THEN "br_gather" ELSE "br_sequential"
    /\ UNCHANGED <<fanVars, cfgVars, auxVars, dbVars, call, context, phases, idx,
                   results,
                   wave_results, progVars, bridgeVars>>

\* Lines 99-100: await start_agent(primary_agent).  start_agent has no
\* await of its own, so the call runs to its return in one step; the value
\* it returns is discarded.
bridge_StartPrimary ==
    /\ pc = "br_primary"
    /\ LET cfg == phase_agent_map[phases[idx]] IN
          /\ \E launched \in BOOLEAN :
                /\ agents' = start_agent(agents, cfg.primary, launched)
                /\ invoked' = Append(invoked,
                                     Invocation(cfg.primary, "primary",
                                                Returned(launched)))
          /\ pc' = IF UseGather(cfg) THEN "br_gather" ELSE "br_sequential"
    /\ UNCHANGED <<fanVars, cfgVars, auxVars, dbVars, call, context, phases, idx,
                   results,
                   wave_results, progVars, bridge_results>>

\* Lines 104-108: one start_agent coroutine per secondary agent, all handed
\* to asyncio.gather, which schedules them in list order; none has run when
\* the bridge suspends on the gather.
bridge_Gather ==
    /\ pc = "br_gather"
    /\ LET secondary == phase_agent_map[phases[idx]].secondary IN
          /\ invoked' = invoked \o
                [i \in 1..Len(secondary) |->
                    Invocation(secondary[i], "secondary", "pending")]
          /\ pc' = IF secondary = <<>> THEN "br_score" ELSE "br_gathering"
    /\ UNCHANGED <<fanVars, cfgVars, auxVars, dbVars, call, context, phases, idx,
                   results,
                   wave_results, progVars, agents, bridge_results>>

\* The event loop runs the oldest scheduled coroutine to its return; when
\* the last one has returned the gather is done and the bridge resumes.
bridge_RunTask ==
    /\ pc = "br_gathering"
    /\ LET i == CHOOSE k \in 1..Len(invoked) :
                   /\ invoked[k].returned = "pending"
                   /\ \A j \in 1..(k - 1) : invoked[j].returned # "pending" IN
          /\ \E launched \in BOOLEAN :
                /\ agents' = start_agent(agents, invoked[i].agent, launched)
                /\ invoked' = [invoked EXCEPT ![i].returned = Returned(launched)]
          /\ pc' = IF i = Len(invoked) THEN "br_score" ELSE "br_gathering"
    /\ UNCHANGED <<fanVars, cfgVars, auxVars, dbVars, call, context, phases, idx,
                   results,
                   wave_results, progVars, bridge_results>>

\* Lines 110-112: the next secondary agent of the list is started and
\* awaited, or the list is exhausted.
bridge_StartSecondary ==
    /\ pc = "br_sequential"
    /\ LET secondary == phase_agent_map[phases[idx]].secondary
           n == Len(Secondaries(invoked)) IN
          IF n < Len(secondary)
          THEN /\ \E launched \in BOOLEAN :
                     /\ agents' = start_agent(agents, secondary[n + 1], launched)
                     /\ invoked' = Append(invoked,
                                          Invocation(secondary[n + 1], "secondary",
                                                     Returned(launched)))
               /\ pc' = "br_sleep"
          ELSE /\ pc' = "br_score"
               /\ UNCHANGED <<agents, invoked>>
    /\ UNCHANGED <<fanVars, cfgVars, auxVars, dbVars, call, context, phases, idx,
                   results,
                   wave_results, progVars, bridge_results>>

\* Line 113: await asyncio.sleep(1)
bridge_Sleep ==
    /\ pc = "br_sleep"
    /\ pc' = "br_sequential"
    /\ UNCHANGED <<fanVars, cfgVars, auxVars, dbVars, call, context, phases, idx,
                   results,
                   wave_results, progVars, bridgeVars>>

\* A sum that stops after the first secondary agent
SumScores_FirstOnly(table, keys) ==
    IF keys = <<>> THEN 0 ELSE get_agent_score(table, Head(keys))

\* sum of a list of scores
RECURSIVE SumScores(_, _)
SumScores(table, keys) ==
    IF keys = <<>> THEN 0
    ELSE get_agent_score(table, Head(keys)) + SumScores(table, Tail(keys))

\* Lines 115-133: the phase result with its scores; 'average' is kept as an
\* exact fraction of hundredths.
BridgePhaseResults(table, phase) ==
    LET cfg == phase_agent_map[phase] IN
    [phase |-> phase,
     primary_agent |-> cfg.primary,
     secondary_agents |-> cfg.secondary,
     execution_mode |-> IF cfg.parallel THEN "parallel" ELSE "sequential",
     primary |-> get_agent_score(table, cfg.primary),
     average |-> [num |-> get_agent_score(table, cfg.primary)
                            + SumScores(table, cfg.secondary),
                  den |-> 1 + Len(cfg.secondary)]]

\* Lines 115-135: results['phase_results'][phase.value] = phase_results
bridge_Score ==
    /\ pc = "br_score"
    /\ bridge_results' =
          [bridge_results EXCEPT
              !.phase_results =
                  Put(@, phases[idx], BridgePhaseResults(agents, phases[idx]))]
    /\ pc' = IF CheckpointConfigured(strategy_configs[context.strategy])
             THEN "br_checkpoint" ELSE "br_loop"
    /\ UNCHANGED <<fanVars, cfgVars, auxVars, dbVars, call, context, phases, idx,
                   results,
                   wave_results, progVars, agents, invoked>>

\* Lines 137-139: await self.wave_orchestrator.create_checkpoint(context, phase)
bridge_Checkpoint ==
    /\ pc = "br_checkpoint"
    /\ create_checkpoint(context, phases[idx])
    /\ pc' = "br_loop"
    /\ UNCHANGED <<fanVars, cfgVars, auxVars, waves, wave_phases, call, context, phases,
                   idx, results, wave_results, progVars, bridgeVars>>

\* Sum of the phase averages over a common denominator of 6 (every phase
\* has one or two secondary agents).
RECURSIVE SumAverages(_, _)
SumAverages(pr, plist) ==
    IF plist = <<>> THEN 0
    ELSE pr[Head(plist)].average.num * (6 \div pr[Head(plist)].average.den)
         + SumAverages(pr, Tail(plist))

\* Lines 141-145: total_score, the mean of the phase averages
OverallScore(pr, plist) ==
    [num |-> SumAverages(pr, plist), den |-> 6 * Len(plist)]

\* 'success' if total_score > 0.7 else 'needs_improvement'; the score is a
\* fraction of hundredths.
BridgeStatus(score) ==
    IF score.num > 70 * score.den THEN "success" ELSE "needs_improvement"

\* Lines 141-150: every phase of the list has a result here, because the
\* loop has no exit other than exhausting the list.
bridge_Finish ==
    /\ pc = "br_final"
    /\ LET score == OverallScore(bridge_results.phase_results, phases) IN
          bridge_results' = [bridge_results EXCEPT
                                !.overall_score = score,
                                !.status = BridgeStatus(score)]
    /\ pc' = "done"
    /\ UNCHANGED <<fanVars, cfgVars, auxVars, dbVars, call, context, phases, idx,
                   results,
                   wave_results, progVars, agents, invoked>>

-----------------------------------------------------------------------------
Next ==
    \/ Call_execute_wave
    \/ execute_wave_Begin
    \/ execute_wave_NextPhase
    \/ execute_wave_Checkpoint
    \/ execute_phase_Start
    \/ execute_phase_Finish
    \/ execute_wave_Record
    \/ execute_wave_Finish
    \/ Call_run_progressive_waves
    \/ run_progressive_waves_NextIteration
    \/ run_progressive_waves_AfterPass
    \/ Call_execute_wave_with_agents
    \/ bridge_Begin
    \/ bridge_NextPhase
    \/ bridge_StartPrimary
    \/ bridge_Gather
    \/ bridge_RunTask
    \/ bridge_StartSecondary
    \/ bridge_Sleep
    \/ bridge_Score
    \/ bridge_Checkpoint
    \/ bridge_Finish

Spec == Init /\ [][Next]_vars

-----------------------------------------------------------------------------
(* Views of the state used by the properties                               *)

Finished == {"completed", "failed"}

\* The coroutine is inside execute_wave_with_agents
InBridge == call.name = "execute_wave_with_agents"

\* Status of phase p in the wave run in progress.  In execute_wave it is the
\* 'status' of the phase's result dict (pending while execute_phase has not
\* been entered for it); in execute_wave_with_agents a phase is in progress
\* from the head of the loop body until its result is stored.
PhaseStatus(p) ==
    IF InBridge
    THEN IF p \in DOMAIN bridge_results.phase_results THEN "completed"
         ELSE IF pc \in {"br_primary", "br_gather", "br_gathering",
                         "br_sequential", "br_sleep", "br_score"}
                 /\ phases[idx] = p THEN "in_progress"
         ELSE "pending"
    ELSE IF pc \in {"ep_work", "ew_record"} /\ phases[idx] = p
         THEN results.status
         ELSE IF pc \in {"ew_loop", "ew_checkpoint", "ep_insert", "ep_work",
                         "ew_record", "ew_final", "pw_after", "done"}
                 /\ p \in DOMAIN wave_results.phases
         THEN wave_results.phases[p].status
         ELSE "pending"

\* Indices of the wave_phases rows of a wave, and the phases they name in
\* insertion order
RowsOf(wid) == {i \in 1..Len(wave_phases) : wave_phases[i].wave_id = wid}

RECURSIVE StartedFrom(_, _)
StartedFrom(wid, i) ==
    IF i > Len(wave_phases) THEN <<>>
    ELSE IF wave_phases[i].wave_id = wid
         THEN <<wave_phases[i].phase>> \o StartedFrom(wid, i + 1)
         ELSE StartedFrom(wid, i + 1)

StartedPhases(wid) == StartedFrom(wid, 1)

CheckpointsOf(wid) ==
    {i \in 1..Len(wave_checkpoints) : wave_checkpoints[i].wave_id = wid}

\* The phase list a wave row was run with
ConfiguredPhases(wid) ==
    IF waves[wid].strategy = "adaptive"
    THEN select_adaptive_phases(context)
    ELSE strategy_configs[waves[wid].strategy].phases

RollbackEnabled(wid) == strategy_configs[waves[wid].strategy].rollback_enabled

\* generate_wave_report, lines 536-578: the waves row and the wave_phases
\* rows of the id are read; without a waves row the report is the error
\* dict.
generate_wave_report(wave_id) ==
    IF wave_id \notin DOMAIN waves
    THEN [error |-> "Wave not found"]
    ELSE [wave_id |-> wave_id,
          strategy |-> waves[wave_id].strategy,
          status |-> waves[wave_id].status,
          phases_completed |-> waves[wave_id].phases_completed,
          total_phases |-> waves[wave_id].total_phases,
          phases |-> SelectSeq(wave_phases,
                               LAMBDA row : row.wave_id = wave_id)]

\* The ids of the waves that have been run or are being run: a wave of
\* execute_wave starts with its waves row, a wave of
\* execute_wave_with_agents with the first statement of the call.
WavesRun ==
    DOMAIN waves
    \cup (IF InBridge /\ pc # "br_begin" THEN {context.wave_id} ELSE {})

\* The wave_results dict of the execute_wave pass that ran wave wid: the one
\* being built or just returned, or the element of all_results kept for it
ResultsOfWave(wid) ==
    IF wave_results.wave_id = wid THEN wave_results
    ELSE CHOOSE r \in Range(all_results) : r.wave_id = wid

\* Status of phase p in the pass that ran wave wid, as execute_phase returned
\* it ('pending' while execute_phase has not been entered for it)
PhaseStatusIn(wid, p) ==
    IF /\ wid = context.wave_id /\ wave_results.wave_id = wid
       /\ pc \in {"ep_work", "ew_record"} /\ phases[idx] = p
    THEN results.status
    ELSE IF p \in DOMAIN ResultsOfWave(wid).phases
         THEN ResultsOfWave(wid).phases[p].status
         ELSE "pending"

-----------------------------------------------------------------------------
(* Properties                                                              *)

\* C1: within one wave run, a phase is started only after every phase
\* started before it has reached completed or failed, so no two phases of a
\* wave are being executed together (execute_wave and
\* execute_wave_with_agents).
C1_PhasesOneAtATime ==
    \A i, j \in 1..Len(phases) :
        (i < j /\ PhaseStatus(phases[j]) # "pending")
           => PhaseStatus(phases[i]) \in Finished

\* A later phase of a wave is in progress after an earlier one finished,
\* in execute_wave
C1_Witness ==
    /\ call.name = "execute_wave"
    /\ pc = "ep_work"
    /\ idx >= 2
    /\ PhaseStatus(phases[idx]) = "in_progress"
    /\ wave_phases[Len(wave_phases)].status = "in_progress"

\* C2: the phases started during one execute_wave pass, in the order of
\* their wave_phases rows, are a prefix of the phase list of the strategy
\* configuration (of select_adaptive_phases for the adaptive strategy), and
\* no phase is started twice in the pass.
C2_StartedIsPrefix ==
    \A wid \in DOMAIN waves :
        LET started == StartedPhases(wid)
            plist == ConfiguredPhases(wid) IN
        /\ Len(started) <= Len(plist)
        /\ \A i \in 1..Len(started) : started[i] = plist[i]
        /\ \A i, j \in 1..Len(started) : i # j => started[i] # started[j]

\* An adaptive pass has started four phases of its planned list
C2_Witness ==
    \E wid \in DOMAIN waves :
        /\ waves[wid].strategy = "adaptive"
        /\ Len(StartedPhases(wid)) >= 4

\* C3: when a phase fails under a strategy with rollback_enabled = true, no
\* later phase of the wave is executed or recorded, the count of completed
\* phases is the number of phases before the failed one in the configured
\* order, and the finished wave is stored as partial.
C3_FailureHaltsWave ==
    \A wid \in DOMAIN waves :
        LET plist == ConfiguredPhases(wid) IN
        \A k \in 1..Len(plist) :
            (RollbackEnabled(wid) /\ PhaseStatusIn(wid, plist[k]) = "failed") =>
                /\ Len(StartedPhases(wid)) = k
                /\ DOMAIN ResultsOfWave(wid).phases
                      \subseteq Range(SubSeq(plist, 1, k))
                /\ ResultsOfWave(wid).phases_completed = k - 1
                /\ waves[wid].ended =>
                      /\ waves[wid].status = "partial"
                      /\ waves[wid].phases_completed = k - 1

\* A wave whose third or later phase failed has been stored
C3_Witness ==
    \E wid \in DOMAIN waves :
        /\ waves[wid].ended
        /\ waves[wid].status = "partial"
        /\ waves[wid].phases_completed >= 2
        /\ \E p \in Range(ConfiguredPhases(wid)) :
              PhaseStatusIn(wid, p) = "failed"

C5_CompletedIffAllPhases ==
    \A wid \in DOMAIN waves :
        waves[wid].ended =>
            /\ waves[wid].status \in {"completed", "partial"}
            /\ waves[wid].status = "completed" <=>
                  \A p \in Range(ConfiguredPhases(wid)) :
                      PhaseStatusIn(wid, p) = "completed"
            /\ waves[wid].status = "completed" <=>
                  IsOne(ResultsOfWave(wid).success_rate)

\* One pass was stored as partial after some phases completed, and a later
\* pass as completed
C5_Witness ==
    \E w1, w2 \in DOMAIN waves :
        /\ waves[w1].ended /\ waves[w1].status = "partial"
        /\ waves[w1].phases_completed >= 1
        /\ waves[w2].ended /\ waves[w2].status = "completed"

\* The checkpoint policy of the strategy the call runs
Frequency ==
    IF context.strategy \in WaveStrategy
    THEN strategy_configs[context.strategy].checkpoint_frequency
    ELSE "none"

\* The wave run has moved past phase number k of its list: a later phase was
\* taken from the list, or the loop was left.
MovedPast(k) ==
    \/ idx > k
    \/ idx = k /\ pc \in {"ew_final", "pw_after", "br_final", "done"}

\* C6: a checkpoint is never created for a phase that has not started: every
\* wave_checkpoints row of the wave being run names a phase that is
\* in_progress, completed or failed.
C6_CheckpointOnlyForStartedPhase ==
    \A i \in CheckpointsOf(context.wave_id) :
        PhaseStatus(wave_checkpoints[i].phase) # "pending"

\* One step of a wave whose checkpoint_frequency is per_phase or continuous:
\* a checkpoint inserted by the step names a phase that has finished, and
\* the phase the loop leaves behind has a checkpoint.
CheckpointFollowsPhase ==
    Frequency \in {"per_phase", "continuous"} =>
        /\ Len(wave_checkpoints') > Len(wave_checkpoints) =>
              PhaseStatus(wave_checkpoints'[Len(wave_checkpoints')].phase)
                  \in Finished
        /\ (idx' > idx /\ idx >= 1) =>
              \E i \in CheckpointsOf(context.wave_id) :
                  wave_checkpoints[i].phase = phases[idx]

\* C7: under checkpoint_frequency per_phase or continuous, the checkpoint
\* of a phase is created after the phase has reached completed or failed,
\* and every executed phase has its checkpoint before the next phase is
\* taken from the list.
C7_CheckpointAfterEveryPhase == [][CheckpointFollowsPhase]_vars

\* C8: under the progressive strategy (per_iteration), each full pass of
\* run_progressive_waves has created exactly one checkpoint, for the last
\* phase of the pass, when the pass returns.
C8_OneCheckpointPerIteration ==
    (/\ pc = "pw_after"
     /\ Frequency = "per_iteration"
     /\ StartedPhases(context.wave_id) = phases) =>
        /\ Cardinality(CheckpointsOf(context.wave_id)) = 1
        /\ \A i \in CheckpointsOf(context.wave_id) :
              wave_checkpoints[i].phase = phases[Len(phases)]

\* C9: under the adaptive strategy, every executed phase of the planned
\* list has a checkpoint once the run has moved past it, in execute_wave and
\* in execute_wave_with_agents.
C9_AdaptiveCheckpointsEveryPhase ==
    (context.strategy = "adaptive" /\ Frequency = "adaptive") =>
        \A k \in 1..Len(phases) :
            MovedPast(k) =>
                \E i \in CheckpointsOf(context.wave_id) :
                    wave_checkpoints[i].phase = phases[k]

\* C10: the snapshot of every checkpoint created for phase P of the wave
\* being run holds the result of P and of every phase of the wave that
\* finished before P.
C10_SnapshotHoldsResultsSoFar ==
    \A i \in CheckpointsOf(context.wave_id) :
        LET row == wave_checkpoints[i] IN
        \A k \in 1..IndexOf(row.phase, phases) :
            phases[k] \in DOMAIN row.state_snapshot.phase_results

\* C11: every wave_phases row inserted as in_progress has, by the time the
\* execute_phase call that inserted it returns, been updated to completed or
\* failed with an end time, and its persisted status equals the status of
\* the returned result.
C11_RowFinalisedOnReturn ==
    \A i \in 1..Len(wave_phases) :
        ~(i = Len(wave_phases) /\ pc = "ep_work") =>
            /\ wave_phases[i].status \in Finished
            /\ wave_phases[i].ended
            /\ wave_phases[i].status =
                  PhaseStatusIn(wave_phases[i].wave_id, wave_phases[i].phase)

ReportedSentinel(wr) ==
    /\ OPTIMIZATION \in DOMAIN wr.phases
    /\ wr.phases[OPTIMIZATION].performance_gain = "0%"

\* C13: if no pass had success_rate 1.0 together with an optimization phase
\* that reported the sentinel (a pass over review, implementation,
\* validation runs no optimization phase), run_progressive_waves does not
\* stop early: it returns after all `iterations` passes.
C13_AllPassesWithoutSentinel ==
    (/\ call.name = "run_progressive_waves"
     /\ pc = "done"
     /\ \A k \in 1..Len(all_results) :
           ~(IsOne(all_results[k].success_rate)
               /\ ReportedSentinel(all_results[k])))
        => Len(all_results) = call.iterations

\* C14: in run_progressive_waves started on a context whose wave id is
\* base_id, pass N is executed and persisted under "{base_id}_iter{N}", and
\* the ids of different passes are pairwise distinct.
C14_PassIdIsBaseIterN ==
    call.name = "run_progressive_waves" =>
        /\ iter >= 1 => context.wave_id = IterWaveId(BaseWaveId, iter)
        /\ DOMAIN waves \subseteq {IterWaveId(BaseWaveId, n) : n \in 1..iter}
        /\ \A k \in 1..Len(all_results) :
              all_results[k].wave_id = IterWaveId(BaseWaveId, k)
        /\ \A j, k \in 1..Len(all_results) :
              j # k => all_results[j].wave_id # all_results[k].wave_id

-----------------------------------------------------------------------------
(* WaveAgentBridge.run_enterprise_wave: the contexts of the targets        *)

\* Longest `targets` list of a call, and the number of times the clock
\* reading changes during it
MaxTargets == 3
MaxClock == 2

\* Complexity scores analyze_complexity returns for the targets (hundredths)
TargetScores == {0, 80}

\* WaveContext.generate_id: the first 8 hex digits of the md5 digest of
\* f"{strategy}_{complexity_score}_{time.time()}".  The digest is a function
\* of that string alone; it is kept as the triple the string is made of,
\* which tells apart every two inputs that differ.
generate_id(ctx, now) ==
    [base |-> <<ctx.strategy, ctx.complexity_score, now>>, iters |-> <<>>]

\* The caller: await bridge.run_enterprise_wave(targets); each target is
\* kept as the score its analysis returns.
Call_run_enterprise_wave ==
    /\ pc = "idle"
    /\ \E n \in 0..MaxTargets : \E ts \in [1..n -> TargetScores] : targets' = ts
    /\ contexts' = <<>>
    /\ call' = [name |-> "run_enterprise_wave", iterations |-> 0]
    /\ pc' = "en_loop"
    /\ UNCHANGED <<clock, cfgVars, auxVars, dbVars, progVars, bridgeVars,
                   context, phases, idx, results, wave_results>>

\* The value of time.time() moves on while the loop runs
Tick ==
    /\ pc = "en_loop"
    /\ clock < MaxClock
    /\ clock' = clock + 1
    /\ UNCHANGED <<targets, contexts, cfgVars, auxVars, dbVars, progVars,
                   bridgeVars, call, pc, context, phases, idx, results,
                   wave_results>>

\* Lines 189-206: analyse the next target, build its context, give it the
\* id generate_id returns; after the last target go on to the gather.
run_enterprise_wave_CreateContext ==
    /\ pc = "en_loop"
    /\ IF Len(contexts) < Len(targets)
       THEN LET ctx == WaveContext("enterprise",
                                   targets[Len(contexts) + 1], <<>>) IN
            /\ contexts' = Append(contexts,
                                  [ctx EXCEPT !.wave_id = generate_id(ctx, clock)])
            /\ pc' = "en_loop"
       ELSE /\ pc' = "en_gather"
            /\ UNCHANGED contexts
    /\ UNCHANGED <<clock, targets, cfgVars, auxVars, dbVars, progVars,
                   bridgeVars, call, context, phases, idx, results,
                   wave_results>>

NextContexts ==
    \/ Call_run_enterprise_wave
    \/ Tick
    \/ run_enterprise_wave_CreateContext

SpecContexts == Init /\ [][NextContexts]_vars

\* C15: no two waves ever created have the same wave_id: the ids
\* generate_id gives to the contexts of one run_enterprise_wave call are
\* pairwise distinct.
C15_WaveIdsDistinct ==
    \A i, j \in 1..Len(contexts) :
        i # j => contexts[i].wave_id # contexts[j].wave_id

-----------------------------------------------------------------------------
(* select_strategy and select_adaptive_phases on arbitrary profiles        *)

\* Profiles on both sides of every threshold the two functions test
ProfileScores == {60, 61, 70, 71, 80, 81}
ProfileFileCounts == {100, 101}
ProfileOperations ==
    {<<>>, <<"testing">>, <<"optimization">>, <<"refactoring">>,
     <<"security_audit">>, <<"performance_tuning">>,
     <<"optimization", "security_audit">>,
     <<"refactoring", "security_audit", "quality_improvement", "testing">>,
     <<"security_audit", "quality_improvement", "testing", "documentation">>}
ProfileDomains == {<<"backend", "data">>, <<"frontend", "backend", "data">>}

\* main, lines 600-607: the context is built with strategy PROGRESSIVE
Profiles ==
    {[WaveContext("progressive", c, ops) EXCEPT !.file_count = n, !.domains = d] :
        c \in ProfileScores, ops \in ProfileOperations,
        n \in ProfileFileCounts, d \in ProfileDomains}

InitSelect ==
    /\ strategy_configs = DefaultStrategyConfigs
    /\ phase_agent_map = DefaultPhaseAgentMap
    /\ waves = EmptyMap
    /\ wave_phases = <<>>
    /\ wave_checkpoints = <<>>
    /\ agents = [k \in AgentKeys |-> "inactive"]
    /\ call = [name |-> "none", iterations |-> 0]
    /\ pc = "idle"
    /\ context \in Profiles
    /\ phases = <<>>
    /\ idx = 0
    /\ results = NoResults
    /\ wave_results = NoWaveResults
    /\ iter = 0
    /\ all_results = <<>>
    /\ invoked = <<>>
    /\ bridge_results = NoBridgeResults
    /\ clock = 0
    /\ targets = <<>>
    /\ contexts = <<>>
    /\ write_errors = <<>>
    /\ tasks = <<>>
    /\ ready = <<>>
    /\ sleeping = <<>>
    /\ current = 0
    /\ target = NoTarget
    /\ profiles = <<>>

\* main, line 611: context.strategy = orchestrator.select_strategy(context)
Apply_select_strategy ==
    /\ pc = "idle"
    /\ context' = [context EXCEPT !.strategy = select_strategy(context)]
    /\ pc' = "strategy_selected"
    /\ UNCHANGED <<fanVars, cfgVars, auxVars, dbVars, progVars, bridgeVars,
                   call, phases, idx, results, wave_results>>

\* execute_wave, line 414: phases = self.select_adaptive_phases(context)
Apply_select_adaptive_phases ==
    /\ pc \in {"idle", "strategy_selected"}
    /\ phases' = select_adaptive_phases(context)
    /\ pc' = "phases_selected"
    /\ UNCHANGED <<fanVars, cfgVars, auxVars, dbVars, progVars, bridgeVars,
                   call, context, idx, results, wave_results>>

NextSelect ==
    \/ Apply_select_strategy
    \/ Apply_select_adaptive_phases

SpecSelect == InitSelect /\ [][NextSelect]_vars

\* C16: select_strategy returns the result of the first matching rule in
\* the order: file_count > 100 and complexity_score > 0.7 gives Enterprise;
\* else more than 2 domains and more than 3 operation types gives Adaptive;
\* else complexity_score > 0.8 and 'security_audit' gives Systematic; else
\* 'optimization' or 'refactoring' gives Progressive; else Systematic.
C16_FirstMatchingRule ==
    pc = "strategy_selected" =>
        LET r1 == context.file_count > 100 /\ context.complexity_score > 70
            r2 == Len(context.domains) > 2 /\ Len(context.operation_types) > 3
            r3 == /\ context.complexity_score > 80
                  /\ "security_audit" \in Range(context.operation_types)
            r4 == \/ "optimization" \in Range(context.operation_types)
                  \/ "refactoring" \in Range(context.operation_types)
        IN  /\ r1 => context.strategy = "enterprise"
            /\ (~r1 /\ r2) => context.strategy = "adaptive"
            /\ (~r1 /\ ~r2 /\ r3) => context.strategy = "systematic"
            /\ (~r1 /\ ~r2 /\ ~r3 /\ r4) => context.strategy = "progressive"
            /\ (~r1 /\ ~r2 /\ ~r3 /\ ~r4) => context.strategy = "systematic"

\* A profile that matches the enterprise rule and the adaptive rule was
\* given Enterprise
C16_Witness ==
    /\ pc = "strategy_selected"
    /\ context.file_count > 100 /\ context.complexity_score > 70
    /\ Len(context.domains) > 2 /\ Len(context.operation_types) > 3
    /\ context.strategy = "enterprise"

\* C17: select_adaptive_phases returns a list that starts with REVIEW,
\* contains IMPLEMENTATION, contains PLANNING iff complexity_score > 0.7,
\* VALIDATION iff 'testing' is an operation type or complexity_score > 0.6,
\* OPTIMIZATION iff 'optimization' or 'performance_tuning' is an operation
\* type, and lists the phases in the order of WavePhase without duplicates.
C17_AdaptivePhaseList ==
    pc = "phases_selected" =>
        LET ops == Range(context.operation_types) IN
        /\ phases[1] = REVIEW
        /\ IMPLEMENTATION \in Range(phases)
        /\ PLANNING \in Range(phases) <=> context.complexity_score > 70
        /\ VALIDATION \in Range(phases) <=>
              ("testing" \in ops \/ context.complexity_score > 60)
        /\ OPTIMIZATION \in Range(phases) <=>
              ("optimization" \in ops \/ "performance_tuning" \in ops)
        /\ \A i, j \in 1..Len(phases) :
              i < j => IndexOf(phases[i], WavePhase) < IndexOf(phases[j], WavePhase)

\* A profile with score above 0.7 and performance_tuning got all five phases
C17_Witness ==
    /\ pc = "phases_selected"
    /\ context.complexity_score > 70
    /\ "performance_tuning" \in Range(context.operation_types)
    /\ phases = WavePhase

-----------------------------------------------------------------------------
(* execute_wave_with_agents under either execution mode                    *)

\* The bridge alone, on a bridge whose phase_agent_map may have been
\* assigned the opposite `parallel` flag in every phase before the call, so
\* that phases with two secondary agents run in both modes.
InitBridge ==
    /\ strategy_configs = DefaultStrategyConfigs
    /\ \E flip \in BOOLEAN :
          phase_agent_map =
             [p \in DOMAIN DefaultPhaseAgentMap |->
                 [DefaultPhaseAgentMap[p] EXCEPT
                     !.parallel = IF flip THEN ~@ ELSE @]]
    /\ InitState

NextBridge ==
    \/ Call_execute_wave_with_agents
    \/ bridge_Begin
    \/ bridge_NextPhase
    \/ bridge_StartPrimary
    \/ bridge_Gather
    \/ bridge_RunTask
    \/ bridge_StartSecondary
    \/ bridge_Sleep
    \/ bridge_Score
    \/ bridge_Checkpoint
    \/ bridge_Finish

SpecBridge == InitBridge /\ [][NextBridge]_vars

\* C18: within one phase of execute_wave_with_agents no call for a
\* secondary agent is made before the call for the phase's primary agent:
\* the first call of the phase is the primary's, and it has returned.
C18_PrimaryBeforeSecondaries ==
    InBridge =>
        \A i \in 1..Len(invoked) :
            invoked[i].role = "secondary" =>
                /\ i > 1
                /\ invoked[1].role = "primary"
                /\ invoked[1].agent = phase_agent_map[phases[idx]].primary
                /\ invoked[1].returned # "pending"

\* In a phase with two secondary agents the primary has returned and both
\* secondary calls have been made
C18_Witness ==
    /\ InBridge
    /\ Len(invoked) = 3
    /\ invoked[1].role = "primary"
    /\ invoked[2].role = "secondary"
    /\ invoked[3].role = "secondary"

\* C19: in a phase whose mapping is sequential the secondary agents are
\* called one at a time in configured order, a call being made only after
\* the one before it returned; in a phase whose mapping is parallel all the
\* secondary calls are made together, and the phase is scored only after
\* every one of them returned.
C19_SecondaryModes ==
    (InBridge /\ idx >= 1) =>
        LET cfg == phase_agent_map[phases[idx]]
            secs == Secondaries(invoked)
            scored == pc \in {"br_score", "br_checkpoint", "br_loop"} IN
        /\ Len(secs) <= Len(cfg.secondary)
        /\ \A i \in 1..Len(secs) : secs[i].agent = cfg.secondary[i]
        /\ ~cfg.parallel =>
              /\ \A i \in 1..Len(secs) : secs[i].returned # "pending"
              /\ pc = "br_sleep" => Len(secs) >= 1
        /\ (cfg.parallel /\ secs # <<>>) => Len(secs) = Len(cfg.secondary)
        /\ scored =>
              /\ Len(secs) = Len(cfg.secondary)
              /\ \A i \in 1..Len(secs) : secs[i].returned # "pending"

\* A sequential phase with two secondary agents has called both, in order,
\* the second after the first returned
C19_Witness ==
    /\ InBridge
    /\ idx >= 1
    /\ ~phase_agent_map[phases[idx]].parallel
    /\ pc = "br_sleep"
    /\ Len(Secondaries(invoked)) = 2

\* C20: when a start_agent call of a phase returns False, the phase is
\* marked failed and the wave halts at that phase: no further agent is
\* started, the phase is not scored as a normal result and no later phase
\* is taken; and no agent is called twice in the phase.
C20_ProviderFailureFailsPhase ==
    InBridge =>
        /\ \A i \in 1..Len(invoked) :
              invoked[i].returned = "False" =>
                 /\ \A j \in (i + 1)..Len(invoked) :
                       invoked[j].returned # "True"
                 /\ pc \notin {"br_score", "br_checkpoint", "br_loop"}
                 /\ (phases[idx] \in DOMAIN bridge_results.phase_results)
                       => PhaseStatus(phases[idx]) = "failed"
                 /\ bridge_results.status # "success"
        /\ \A i, j \in 1..Len(invoked) :
              i # j => invoked[i].agent # invoked[j].agent

-----------------------------------------------------------------------------
(* execute_wave on a failing database and on an unrecognized strategy      *)

\* A context whose strategy is none of the four members of WaveStrategy
UnrecognizedContext == WaveContext("unrecognized", 75, <<"optimization">>)

\* The caller: await orchestrator.execute_wave(context) with such a context
Call_execute_wave_Unrecognized ==
    /\ pc = "idle"
    /\ context' = UnrecognizedContext
    /\ call' = [name |-> "execute_wave", iterations |-> 0]
    /\ pc' = "ew_begin"
    /\ UNCHANGED <<fanVars, cfgVars, auxVars, dbVars, progVars, bridgeVars,
                   phases, idx, results, wave_results>>

\* Lines 427-443: the INSERT into waves or its commit raises sqlite3.Error;
\* the statement is in no try block.
execute_wave_Begin_WriteRaises ==
    /\ pc = "ew_begin"
    /\ context.strategy \in DOMAIN strategy_configs
    /\ write_errors' = Append(write_errors, "waves_insert")
    /\ pc' = "raised"
    /\ UNCHANGED <<fanVars, cfgVars, loopVars, analyzeVars, dbVars, call, context, phases, idx,
                   results, wave_results, progVars, bridgeVars>>

\* create_checkpoint, lines 269-279: the INSERT into wave_checkpoints or its
\* commit raises; no try block here or around the call (line 451).
create_checkpoint_WriteRaises ==
    /\ pc = "ew_checkpoint"
    /\ write_errors' = Append(write_errors, "checkpoint_insert")
    /\ pc' = "raised"
    /\ UNCHANGED <<fanVars, cfgVars, loopVars, analyzeVars, dbVars, call, context, phases, idx,
                   results, wave_results, progVars, bridgeVars>>

\* execute_phase, lines 303-316: the INSERT into wave_phases or its commit
\* raises, before the try block is entered.
execute_phase_Start_WriteRaises ==
    /\ pc = "ep_insert"
    /\ write_errors' = Append(write_errors, "phase_insert")
    /\ pc' = "raised"
    /\ UNCHANGED <<fanVars, cfgVars, loopVars, analyzeVars, dbVars, call, context, phases, idx,
                   results, wave_results, progVars, bridgeVars>>

\* execute_phase, lines 369-403: the UPDATE of the try block or its commit
\* raises.  `except Exception` catches the error, sets results['status'] =
\* 'failed' and issues the second UPDATE; when that one goes through the
\* dict is returned as usual, when it raises too the error leaves
\* execute_phase.
execute_phase_Finish_WriteRaises ==
    /\ pc = "ep_work"
    /\ \E again \in BOOLEAN :
          IF again
          THEN /\ write_errors' = write_errors \o <<"phase_update", "phase_update">>
               /\ pc' = "raised"
               /\ UNCHANGED results
          ELSE /\ write_errors' = Append(write_errors, "phase_update")
               /\ results' = PhaseResults(phases[idx], "failed")
               /\ pc' = "ew_record"
    /\ UNCHANGED <<fanVars, cfgVars, loopVars, analyzeVars, dbVars, call, context, phases, idx,
                   wave_results, progVars, bridgeVars>>

\* Lines 475-490: the final UPDATE of waves or its commit raises; no try
\* block.
execute_wave_Finish_WriteRaises ==
    /\ pc = "ew_final"
    /\ write_errors' = Append(write_errors, "waves_update")
    /\ pc' = "raised"
    /\ UNCHANGED <<fanVars, cfgVars, loopVars, analyzeVars, dbVars, call, context, phases, idx,
                   results, wave_results, progVars, bridgeVars>>

NextFaults ==
    \/ Call_execute_wave
    \/ Call_execute_wave_Unrecognized
    \/ execute_wave_Begin
    \/ execute_wave_NextPhase
    \/ execute_wave_Checkpoint
    \/ execute_phase_Start
    \/ execute_phase_Finish
    \/ execute_wave_Record
    \/ execute_wave_Finish
    \/ execute_wave_Begin_WriteRaises
    \/ create_checkpoint_WriteRaises
    \/ execute_phase_Start_WriteRaises
    \/ execute_phase_Finish_WriteRaises
    \/ execute_wave_Finish_WriteRaises

SpecFaults == Init /\ [][NextFaults]_vars

\* C21: a persistence write that failed at any point of a wave is
\* propagated to the caller: once a write has raised, the call is ending
\* with the error, and no phase result or normal return comes out of it.
C21_WriteErrorPropagates ==
    write_errors # <<>> => pc = "raised"

\* C22: a context whose strategy is not one of the four recognized ones is
\* rejected by execute_wave before any phase runs: the call raises, no
\* phase is executed and no wave row, phase record or checkpoint is written.
C22_UnrecognizedStrategyRejected ==
    context.strategy \notin WaveStrategy \cup {"none"} =>
        /\ pc \in {"ew_begin", "raised"}
        /\ waves = EmptyMap
        /\ wave_phases = <<>>
        /\ wave_checkpoints = <<>>
        /\ results = NoResults
        /\ phases = <<>>

\* execute_wave has raised on the unrecognized strategy
C22_Witness ==
    /\ context.strategy \notin WaveStrategy \cup {"none"}
    /\ call.name = "execute_wave"
    /\ pc = "raised"

\* C23: for every wave that has been run (by execute_wave, by a pass of
\* run_progressive_waves or by execute_wave_with_agents), the report
\* generate_wave_report returns for its id holds status, phases_completed
\* and total_phases, at any time from the wave's start on.
C23_ReportHasStatusAndCounts ==
    \A wid \in WavesRun :
        {"status", "phases_completed", "total_phases"}
            \subseteq DOMAIN generate_wave_report(wid)

-----------------------------------------------------------------------------
(* run_enterprise_wave: the fan-out on the asyncio event loop              *)

\* Bound of the fan-out: targets per call
MaxWaves == 2

\* The coroutine execute_wave_with_agents(context) as line 206 creates it:
\* nothing of it has run.  `started` collects the agents the wave's own
\* start_agent calls have launched, `failed` the calls (phase position,
\* place in the phase's call log, agent) that returned False.
Frame(ctx) ==
    [context |-> ctx, pc |-> "br_begin", phases |-> <<>>, idx |-> 0,
     invoked |-> <<>>, bridge_results |-> NoBridgeResults, started |-> {},
     failed |-> {}]

\* One callback of the event loop: a step of the wave's own coroutine, or
\* one start_agent coroutine a gather of that wave has scheduled.
Entry(i, kind) == [task |-> i, kind |-> kind]

\* The agents whose start_agent call in the log returned True
LaunchedIn(calls) ==
    {calls[k].agent : k \in {j \in 1..Len(calls) : calls[j].returned = "True"}}

\* The start_agent calls of the log of phase position p that returned False
FailedIn(calls, p) ==
    {<<p, k, calls[k].agent>> :
        k \in {j \in 1..Len(calls) : calls[j].returned = "False"}}

\* The start_agent coroutines of the log that have not run
PendingIn(calls) ==
    Cardinality({k \in 1..Len(calls) : calls[k].returned = "pending"})

\* The callbacks in the queue that are start_agent coroutines of wave i
ChildEntries(queue, i) ==
    Cardinality({k \in 1..Len(queue) : queue[k] = Entry(i, "child")})

\* The frame of wave i: the running coroutine's is in the program
\* variables, a suspended one's is the frame saved when it suspended.
FrameOf(i) ==
    IF current = i
    THEN [tasks[i] EXCEPT !.context = context, !.pc = pc, !.phases = phases,
                          !.idx = idx, !.invoked = invoked,
                          !.bridge_results = bridge_results]
    ELSE tasks[i]

\* The dict execute_wave_with_agents returns, lines 74-79 and 147-150
BridgeReturn(f) ==
    [wave_id |-> f.context.wave_id,
     strategy |-> f.context.strategy,
     phase_results |-> f.bridge_results.phase_results,
     overall_score |-> f.bridge_results.overall_score,
     status |-> f.bridge_results.status]

\* A gather that is done as soon as one of its coroutines has returned
GatherDone_First(frames) == \E i \in 1..Len(frames) : frames[i].pc = "done"

\* asyncio.gather(*tasks), line 209: the awaiting coroutine resumes when
\* every coroutine of the list has returned.
GatherDone(frames) == \A i \in 1..Len(frames) : frames[i].pc = "done"

\* Lines 188-209: the coroutines of all targets exist, none has run; the
\* gather wraps them into tasks, scheduled in list order, and
\* run_enterprise_wave suspends.
run_enterprise_wave_Gather ==
    /\ pc = "en_gather"
    /\ tasks' = [i \in 1..Len(contexts) |-> Frame(contexts[i])]
    /\ ready' = [i \in 1..Len(contexts) |-> Entry(i, "wave")]
    /\ pc' = "en_wait"
    /\ UNCHANGED <<fanVars, cfgVars, write_errors, sleeping, current,
                   analyzeVars, dbVars, call, context, phases, idx, results,
                   wave_results, progVars, bridgeVars>>

\* The event loop takes the oldest callback of its queue and runs the
\* coroutine it belongs to from where it suspended; a wave that was in
\* asyncio.sleep(1) (line 113) resumes behind the sleep.
loop_RunNext ==
    /\ pc = "en_wait"
    /\ current = 0
    /\ ready # <<>>
    /\ LET f == tasks[Head(ready).task] IN
          /\ current' = Head(ready).task
          /\ context' = f.context
          /\ pc' = IF f.pc = "br_sleep" THEN "br_sequential" ELSE f.pc
          /\ phases' = f.phases
          /\ idx' = f.idx
          /\ invoked' = f.invoked
          /\ bridge_results' = f.bridge_results
    /\ UNCHANGED <<fanVars, cfgVars, write_errors, tasks, ready, sleeping,
                   analyzeVars, dbVars, call, results, wave_results,
                   progVars, agents>>

\* The timer of the wave that went to sleep first expires: its coroutine
\* joins the queue.  Timers are looked at between two callbacks.
loop_TimerFires ==
    /\ pc = "en_wait"
    /\ current = 0
    /\ sleeping # <<>>
    /\ ready' = Append(ready, Entry(Head(sleeping), "wave"))
    /\ sleeping' = Tail(sleeping)
    /\ UNCHANGED <<fanVars, cfgVars, write_errors, tasks, current,
                   analyzeVars, dbVars, call, pc, context, phases, idx,
                   results, wave_results, progVars, bridgeVars>>

\* The running callback is at its end: the wave's coroutine has returned
\* (line 150), is in asyncio.sleep (line 113), has handed its secondary
\* agents to gather (line 108), or the callback was one start_agent
\* coroutine of a gather and that coroutine has returned.
AtSuspension ==
    /\ current # 0
    /\ \/ pc \in {"done", "br_sleep"}
       \/ /\ Head(ready).kind = "wave"
          /\ pc = "br_gathering"
       \/ /\ Head(ready).kind = "child"
          /\ PendingIn(invoked) < ChildEntries(ready, current)

\* The coroutine suspends or returns and control goes back to the event
\* loop: a gather schedules its coroutines behind everything in the queue,
\* the last coroutine of a gather to return wakes the wave that awaits it,
\* a sleeping wave waits for its timer.
wave_Suspend ==
    /\ AtSuspension
    /\ tasks' = [tasks EXCEPT ![current] =
                    [context |-> context, pc |-> pc, phases |-> phases,
                     idx |-> idx, invoked |-> invoked,
                     bridge_results |-> bridge_results,
                     started |-> @.started \cup LaunchedIn(invoked),
                     failed |-> @.failed \cup FailedIn(invoked, idx)]]
    /\ ready' =
          IF pc = "br_gathering" /\ Head(ready).kind = "wave"
          THEN Tail(ready) \o [k \in 1..PendingIn(invoked) |->
                                  Entry(current, "child")]
          ELSE IF pc = "br_score" /\ Head(ready).kind = "child"
          THEN Append(Tail(ready), Entry(current, "wave"))
          ELSE Tail(ready)
    /\ sleeping' = IF pc = "br_sleep" THEN Append(sleeping, current)
                   ELSE sleeping
    /\ current' = 0
    /\ context' = NoContext
    /\ phases' = <<>>
    /\ idx' = 0
    /\ invoked' = <<>>
    /\ bridge_results' = NoBridgeResults
    /\ pc' = "en_wait"
    /\ UNCHANGED <<fanVars, cfgVars, write_errors, analyzeVars, dbVars, call,
                   results, wave_results, progVars, agents>>

\* The start_agent calls of the fan-out that have returned False
FailedLaunches ==
    UNION {{<<i, c>> : c \in tasks[i].failed
                              \cup (IF current = i THEN FailedIn(invoked, idx)
                                    ELSE {})}
           : i \in 1..Len(tasks)}

\* The agents some start_agent call of the fan-out has launched
LaunchedAgents ==
    UNION {tasks[i].started \cup (IF current = i THEN LaunchedIn(invoked)
                                  ELSE {})
           : i \in 1..Len(tasks)}

\* start_agent returns False for an agent whose script is missing, on
\* every call (lines 139 and 152-154), and when Popen raises (lines
\* 156-158).  The runs looked at are those in which the only failures are
\* missing scripts, and those in which a single launch fails.
LaunchOutcomesCovered ==
    \/ {f[2][3] : f \in FailedLaunches} \cap LaunchedAgents = {}
    \/ Cardinality(FailedLaunches) = 1

\* One statement of the running wave (lines 70-150), up to its next
\* suspension
wave_Step ==
    /\ current # 0
    /\ ~AtSuspension
    /\ \/ bridge_Begin
       \/ bridge_NextPhase
       \/ bridge_StartPrimary
       \/ bridge_Gather
       \/ bridge_RunTask
       \/ bridge_StartSecondary
       \/ bridge_Score
       \/ bridge_Checkpoint
       \/ bridge_Finish
    /\ LaunchOutcomesCovered'

\* Line 214: `if results[i]['status'] == 'success'`
CountsAsSuccess(r) == r.status = "success"

\* Lines 212-217: all_results['targets'][target] = results[i], in list
\* order; a target that is in the list twice keeps the later result.
RECURSIVE TargetResults(_, _, _)
TargetResults(ts, rs, i) ==
    IF i = 0 THEN EmptyMap
    ELSE Put(TargetResults(ts, rs, i - 1), ts[i], rs[i])

RECURSIVE SumOverall(_, _)
SumOverall(rs, i) ==
    IF i = 0 THEN 0 ELSE rs[i].overall_score.num + SumOverall(rs, i - 1)

\* Lines 212-224: the dict run_enterprise_wave returns.  Every wave is an
\* enterprise wave, so all overall scores have the same denominator.
EnterpriseResults(ts, rs) ==
    [strategy |-> "enterprise",
     targets |-> TargetResults(ts, rs, Len(rs)),
     summary |->
        [total_targets |-> Len(ts),
         successful |-> Cardinality({i \in 1..Len(rs) : CountsAsSuccess(rs[i])}),
         failed |-> Cardinality({i \in 1..Len(rs) : ~CountsAsSuccess(rs[i])}),
         average_score |-> [num |-> SumOverall(rs, Len(rs)),
                            den |-> rs[1].overall_score.den * Len(rs)]]]

\* Lines 209-224: the gather returns the results in the order of the
\* coroutines; with no target the division by len(results) raises
\* ZeroDivisionError.
run_enterprise_wave_Compile ==
    /\ pc = "en_wait"
    /\ current = 0
    /\ GatherDone(tasks)
    /\ IF tasks = <<>>
       THEN /\ pc' = "raised"
            /\ UNCHANGED all_results
       ELSE /\ all_results' =
                  EnterpriseResults(targets,
                                    [i \in 1..Len(tasks) |-> BridgeReturn(tasks[i])])
            /\ pc' = "done"
    /\ UNCHANGED <<fanVars, cfgVars, auxVars, dbVars, call, context, phases,
                   idx, results, wave_results, iter, bridgeVars>>

\* The caller of the fan-out passes at most MaxWaves targets
Call_run_enterprise_wave_Few ==
    /\ Call_run_enterprise_wave
    /\ Len(targets') <= MaxWaves

NextEnterprise ==
    \/ Call_run_enterprise_wave_Few
    \/ run_enterprise_wave_CreateContext
    \/ run_enterprise_wave_Gather
    \/ loop_RunNext
    \/ loop_TimerFires
    \/ wave_Step
    \/ wave_Suspend
    \/ run_enterprise_wave_Compile

SpecEnterprise == Init /\ [][NextEnterprise]_vars

\* run_enterprise_wave has returned (the running coroutine is the caller's,
\* not a wave's)
EnterpriseReturned ==
    call.name = "run_enterprise_wave" /\ pc = "done" /\ current = 0

\* The waves of the fan-out in which every phase of the list ran to its
\* result
CompletedWaves ==
    {i \in 1..Len(tasks) :
        \A k \in 1..Len(tasks[i].phases) :
            tasks[i].phases[k] \in DOMAIN tasks[i].bridge_results.phase_results}

\* C24: run_enterprise_wave counts a target as successful exactly when
\* every phase of that target's wave completed, and as failed otherwise.
C24_SuccessIffWaveCompleted ==
    EnterpriseReturned =>
        /\ all_results.summary.successful = Cardinality(CompletedWaves)
        /\ all_results.summary.failed
              = Len(tasks) - Cardinality(CompletedWaves)

\* C25: the wave of every target exists before run_enterprise_wave waits
\* and none has run a statement before that; run_enterprise_wave returns
\* only when every wave has returned; the result kept for a target is the
\* result of a wave started for that target.
C25_StartedTogetherAwaitedTogether ==
    /\ pc \in {"en_loop", "en_gather"} =>
          /\ tasks = <<>>
          /\ wave_checkpoints = <<>>
          /\ \A k \in AgentKeys : agents[k] = "inactive"
    /\ pc = "en_wait" =>
          /\ Len(tasks) = Len(targets)
          /\ \A i \in 1..Len(tasks) : FrameOf(i).context = contexts[i]
    /\ EnterpriseReturned =>
          /\ \A i \in 1..Len(targets) : tasks[i].pc = "done"
          /\ DOMAIN all_results.targets = Range(targets)
          /\ \A t \in DOMAIN all_results.targets :
                \E i \in 1..Len(targets) :
                    /\ targets[i] = t
                    /\ contexts[i].complexity_score = t
                    /\ all_results.targets[t] = BridgeReturn(tasks[i])

\* Two different targets, each with the result of its own wave
C25_Witness ==
    /\ EnterpriseReturned
    /\ Len(targets) = 2
    /\ targets[1] # targets[2]
    /\ all_results.targets[targets[1]] = BridgeReturn(tasks[1])
    /\ all_results.targets[targets[2]] = BridgeReturn(tasks[2])
    /\ BridgeReturn(tasks[1]) # BridgeReturn(tasks[2])

\* The agents table of a bridge on which only the given agents have been
\* launched
AloneTable(launched) ==
    [k \in AgentKeys |-> IF k \in launched THEN "active" ELSE "inactive"]

\* C26: whatever the other waves of the fan-out do, the scores a wave
\* records for a phase are those it records when it runs alone, that is,
\* those that follow from the outcomes of its own start_agent calls.
C26_WavesIndependent ==
    (current # 0 /\ pc = "br_checkpoint") =>
        bridge_results.phase_results[phases[idx]]
            = BridgePhaseResults(
                  AloneTable(tasks[current].started \cup LaunchedIn(invoked)),
                  phases[idx])

-----------------------------------------------------------------------------
(* analyze_complexity                                                      *)

\* Line 196-204, operation_keywords, in dict order
operation_keywords ==
    <<[keyword |-> "optimize", op_type |-> "optimization"],
      [keyword |-> "refactor", op_type |-> "refactoring"],
      [keyword |-> "security", op_type |-> "security_audit"],
      [keyword |-> "performance", op_type |-> "performance_tuning"],
      [keyword |-> "quality", op_type |-> "quality_improvement"],
      [keyword |-> "test", op_type |-> "testing"],
      [keyword |-> "document", op_type |-> "documentation"]>>

\* Lines 212-218, the keys of domain_keywords, in dict order
domain_keywords == <<"frontend", "backend", "infrastructure", "security", "data">>

\* How often analyze_complexity is called on one target
MaxAnalyses == 2

\* Numbers of *.py files under a directory target, on both sides of the two
\* scale thresholds and of the point where 0.3 + 0.01 * n reaches 1.0
TargetFileCounts == {0, 50, 51, 70, 100, 101, 150}

\* A target: what Path(target) is on disk (nothing; a path that cannot be
\* reached, so that exists() raises PermissionError; a directory that
\* cannot be listed; a file; a directory with `files` *.py files under
\* it), the operation keywords that occur in target.lower(), and the
\* domains one of whose keywords occurs in it.
Target(k, n, kw, d) == [kind |-> k, files |-> n, keywords |-> kw, domains |-> d]

TargetKinds == {"missing", "unreachable", "unreadable", "file", "dir"}

\* A minimum that never cuts its first argument
Min_Uncut(a, b) == a

Min(a, b) == IF a < b THEN a ELSE b
Max(a, b) == IF a > b THEN a ELSE b

\* A file analysis that counts no files under a directory
FileAnalysis_NoCount(t) ==
    IF t.kind \in {"file", "dir"}
    THEN [file_count |-> 0, complexity_score |-> 30]
    ELSE [file_count |-> 0, complexity_score |-> 0]

\* Lines 178-194: file_count and complexity_score after the file analysis,
\* the score in hundredths.  A path that does not exist leaves both at 0;
\* an exception of exists() is swallowed by `except: pass` before either is
\* assigned; a directory that cannot be listed exists and is a directory,
\* and rglob yields nothing for it.
FileAnalysis(t) ==
    IF t.kind = "file" THEN [file_count |-> 1, complexity_score |-> 30]
    ELSE IF t.kind = "dir"
    THEN [file_count |-> t.files, complexity_score |-> Min(30 + t.files, 100)]
    ELSE IF t.kind = "unreadable"
    THEN [file_count |-> 0, complexity_score |-> Min(30 + 0, 100)]
    ELSE [file_count |-> 0, complexity_score |-> 0]

\* Lines 206-209: the operation types of the keywords found, in dict order
OperationTypes(t) ==
    LET found == SelectSeq(operation_keywords,
                           LAMBDA e : e.keyword \in t.keywords) IN
    [i \in 1..Len(found) |-> found[i].op_type]

\* Lines 220-223: the domains found, in dict order
Domains(t) == SelectSeq(domain_keywords, LAMBDA d : d \in t.domains)

\* Lines 176-234: the tuple analyze_complexity returns.  0.1 is added per
\* operation keyword, 0.05 per domain, the sum is cut at 1.0 and then raised
\* to the floor of the scale.
analyze_complexity(t) ==
    LET fa == FileAnalysis(t)
        ops == OperationTypes(t)
        doms == Domains(t)
        normalized == Min(fa.complexity_score + 10 * Len(ops) + 5 * Len(doms),
                          100)
    IN  [complexity_score |->
            IF fa.file_count > 100 THEN Max(normalized, 80)
            ELSE IF fa.file_count > 50 THEN Max(normalized, 70)
            ELSE normalized,
         file_count |-> fa.file_count,
         operation_types |-> ops,
         domains |-> doms]

\* The caller: await orchestrator.analyze_complexity(target)
Call_analyze_complexity ==
    /\ pc = "idle"
    /\ \E k \in TargetKinds,
          kw \in SUBSET {operation_keywords[i].keyword :
                            i \in 1..Len(operation_keywords)},
          d \in SUBSET Range(domain_keywords) :
          \E n \in (IF k = "dir" THEN TargetFileCounts ELSE {0}) :
              target' = Target(k, n, kw, d)
    /\ call' = [name |-> "analyze_complexity", iterations |-> 0]
    /\ pc' = "an_call"
    /\ UNCHANGED <<fanVars, cfgVars, write_errors, loopVars, profiles, dbVars,
                   progVars, bridgeVars, context, phases, idx, results,
                   wave_results>>

\* An analyzer that keeps the operation types it found in earlier calls
analyze_complexity_Accumulating ==
    /\ pc = "an_call"
    /\ Len(profiles) < MaxAnalyses
    /\ LET p == analyze_complexity(target)
           before == IF profiles = <<>> THEN <<>>
                     ELSE profiles[Len(profiles)].operation_types IN
          profiles' = Append(profiles,
                             [p EXCEPT !.operation_types = before \o @])
    /\ UNCHANGED <<fanVars, cfgVars, write_errors, loopVars, target, dbVars,
                   progVars, bridgeVars, call, pc, context, phases, idx,
                   results, wave_results>>

\* Lines 176-234: one call on the target, which stays as it is.  The
\* function works on locals only: nothing of the orchestrator changes.
analyze_complexity_Return ==
    /\ pc = "an_call"
    /\ Len(profiles) < MaxAnalyses
    /\ profiles' = Append(profiles, analyze_complexity(target))
    /\ UNCHANGED <<fanVars, cfgVars, write_errors, loopVars, target, dbVars,
                   progVars, bridgeVars, call, pc, context, phases, idx,
                   results, wave_results>>

\* main, lines 599-611: the context is built from the profile with strategy
\* PROGRESSIVE and the strategy is then replaced by select_strategy's.
main_SelectStrategy ==
    /\ pc = "an_call"
    /\ profiles # <<>>
    /\ LET p == profiles[Len(profiles)]
           ctx == [WaveContext("progressive", p.complexity_score,
                               p.operation_types)
                      EXCEPT !.file_count = p.file_count,
                             !.domains = p.domains] IN
          context' = [ctx EXCEPT !.strategy = select_strategy(ctx)]
    /\ pc' = "strategy_selected"
    /\ UNCHANGED <<fanVars, cfgVars, auxVars, dbVars, progVars, bridgeVars,
                   call, phases, idx, results, wave_results>>

NextAnalyze ==
    \/ Call_analyze_complexity
    \/ analyze_complexity_Return
    \/ main_SelectStrategy

SpecAnalyze == Init /\ [][NextAnalyze]_vars

\* C27: for a directory with more than 100 source files the score
\* analyze_complexity returns is at least 0.8 and select_strategy on that
\* profile returns Enterprise, whatever keywords the target string
\* contains.
C27_LargeDirectoryIsEnterprise ==
    (target.kind = "dir" /\ target.files > 100) =>
        /\ \A k \in 1..Len(profiles) : profiles[k].complexity_score >= 80
        /\ pc = "strategy_selected" => context.strategy = "enterprise"

\* Scenario A: 150 files and 'optimize' in the target string
C27_Witness ==
    /\ target.kind = "dir"
    /\ target.files = 150
    /\ target.keywords = {"optimize"}
    /\ pc = "strategy_selected"
    /\ context.operation_types = <<"optimization">>
    /\ context.complexity_score >= 80
    /\ context.strategy = "enterprise"

\* C28: a target that does not exist or cannot be read makes
\* analyze_complexity return, without an error, complexity score 0 and
\* file_count 0, whatever the target string contains.
C28_InaccessibleScoresZero ==
    target.kind \in {"missing", "unreachable", "unreadable"} =>
        /\ pc # "raised"
        /\ \A k \in 1..Len(profiles) :
              /\ profiles[k].complexity_score = 0
              /\ profiles[k].file_count = 0

C30_CompletedAtMostTotal ==
    /\ call.name \in {"execute_wave", "run_progressive_waves"} =>
          wave_results.phases_completed <= Len(phases)
    /\ \A wid \in DOMAIN waves :
          waves[wid].phases_completed <= waves[wid].total_phases

\* A wave all of whose phases completed: both counters are at the total
C30_Witness ==
    /\ call.name = "execute_wave"
    /\ pc = "done"
    /\ Len(phases) > 0
    /\ wave_results.phases_completed = Len(phases)
    /\ waves[context.wave_id].phases_completed
          = waves[context.wave_id].total_phases
    /\ waves[context.wave_id].total_phases = Len(phases)

\* C31: for every wave execute_wave has finished, the reported success_rate
\* is the final phases_completed over the length of the phase list, where
\* phases_completed is the number of phases whose result is completed and
\* is the number stored in the waves row.
C31_SuccessRateIsCompletedOverTotal ==
    \A wid \in DOMAIN waves :
        waves[wid].ended =>
            LET r == ResultsOfWave(wid) IN
            /\ r.success_rate.num * waves[wid].total_phases
                  = r.phases_completed * r.success_rate.den
            /\ r.success_rate.den > 0
            /\ r.phases_completed = waves[wid].phases_completed
            /\ r.phases_completed =
                  Cardinality({p \in DOMAIN r.phases :
                                  r.phases[p].status = "completed"})

\* A finished wave in which some phases completed and one failed
C31_Witness ==
    \E wid \in DOMAIN waves :
        /\ waves[wid].ended
        /\ ResultsOfWave(wid).phases_completed > 0
        /\ ResultsOfWave(wid).phases_completed < waves[wid].total_phases
        /\ ResultsOfWave(wid).success_rate.num
              = ResultsOfWave(wid).phases_completed
        /\ ResultsOfWave(wid).success_rate.den = waves[wid].total_phases

\* The WaveContext belongs to a wave pass that has reached a terminal
\* status: the waves row of its wave_id has been finalised.
ContextOfFinishedWave ==
    /\ context.wave_id \in DOMAIN waves
    /\ waves[context.wave_id].ended

\* C32: once a wave pass has reached a terminal status its WaveContext is
\* not mutated again: wave_id stays as assigned and no entry of
\* phase_results is overwritten or removed.
C32_FinishedContextFrozen ==
    [][ContextOfFinishedWave =>
           (/\ context'.wave_id = context.wave_id
            /\ \A p \in DOMAIN context.phase_results :
                  /\ p \in DOMAIN context'.phase_results
                  /\ context'.phase_results[p] = context.phase_results[p])]_vars

\* C33: a pass of run_progressive_waves that ends partial does not abort
\* the call: nothing is raised, the next iteration is run while there is
\* one left, and the call returns with the partial pass in its list.
C33_PartialPassDoesNotAbort ==
    call.name = "run_progressive_waves" =>
        /\ pc # "raised"
        /\ \A k \in 1..Len(all_results) :
              (~IsOne(all_results[k].success_rate) /\ k < call.iterations) =>
                  \/ Len(all_results) > k
                  \/ /\ pc \notin {"done", "raised"}
                     /\ k = Len(all_results)
                     /\ iter \in {k, k + 1}

\* The call has returned three passes, the first of them partial
C33_Witness ==
    /\ call.name = "run_progressive_waves"
    /\ pc = "done"
    /\ Len(all_results) = 3
    /\ ~IsOne(all_results[1].success_rate)
    /\ waves[all_results[1].wave_id].status = "partial"
    /\ \E p \in DOMAIN all_results[1].phases :
          all_results[1].phases[p].status = "failed"

\* C34: the score analyze_complexity returns lies in [0,1] (0..100 in
\* hundredths), is at least 0.8 above 100 files and at least 0.7 above 50
\* files, and is never below the score that was reached before the scale
\* adjustment.
C34_ScoreBoundedAndFloored ==
    \A k \in 1..Len(profiles) :
        LET p == profiles[k]
            raw == FileAnalysis(target).complexity_score
                       + 10 * Len(p.operation_types) + 5 * Len(p.domains) IN
        /\ p.complexity_score >= 0
        /\ p.complexity_score <= 100
        /\ p.file_count > 100 => p.complexity_score >= 80
        /\ p.file_count > 50 => p.complexity_score >= 70
        /\ IF raw >= 100 THEN p.complexity_score = 100
                         ELSE p.complexity_score >= raw

\* A directory of 150 files with two keywords and a domain: the sum passes
\* 1.0 before it is cut, and the floor of 0.8 leaves the cut score alone
C34_Witness ==
    /\ target.kind = "dir"
    /\ target.files = 150
    /\ Cardinality(target.keywords) = 2
    /\ Cardinality(target.domains) = 1
    /\ Len(profiles) = 1
    /\ profiles[1].file_count = 150
    /\ profiles[1].complexity_score = 100

\* C35: when a phase is scored, the average recorded for it is the score
\* of its primary agent plus the scores of its secondary agents, divided
\* by one plus the number of secondary agents, over exactly the agents
\* phase_agent_map configures for the phase; averages recorded earlier
\* stay as they are.
C35_PhaseAverageOverConfiguredAgents ==
    [][pc = "br_score" =>
          LET p == phases[idx]
              cfg == phase_agent_map[p]
              sec == cfg.secondary
              active == Cardinality({i \in 1..Len(sec) :
                                        agents[sec[i]] = "active"})
              primary_score == IF agents[cfg.primary] = "active"
                               THEN 85 ELSE 50
              recorded == bridge_results'.phase_results IN
          (/\ p \in DOMAIN recorded
           /\ recorded[p].primary_agent = cfg.primary
           /\ recorded[p].secondary_agents = sec
           /\ recorded[p].average.num =
                  primary_score + 85 * active + 50 * (Len(sec) - active)
           /\ recorded[p].average.den = 1 + Len(sec)
           /\ \A q \in DOMAIN bridge_results.phase_results \ {p} :
                 /\ q \in DOMAIN recorded
                 /\ recorded[q] = bridge_results.phase_results[q])]_vars

\* The validation phase is scored with its primary active and one of its
\* two secondary agents not: (0.85 + 0.85 + 0.5) / 3
C35_Witness ==
    /\ call.name = "execute_wave_with_agents"
    /\ VALIDATION \in DOMAIN bridge_results.phase_results
    /\ bridge_results.phase_results[VALIDATION].primary = 85
    /\ bridge_results.phase_results[VALIDATION].average =
           [num |-> 220, den |-> 3]

\* C36: every wave_phases row and every wave_checkpoints row carries a
\* wave_id that has a row in waves (rows of waves are never deleted, so a
\* row that had one when it was written has one in every later state).
C36_RowsReferToExistingWave ==
    /\ \A i \in 1..Len(wave_phases) :
          wave_phases[i].wave_id \in DOMAIN waves
    /\ \A i \in 1..Len(wave_checkpoints) :
          wave_checkpoints[i].wave_id \in DOMAIN waves

\* C38: run_enterprise_wave raises for no list of targets, the empty one
\* included, and the summary it returns counts every target once.
C38_EnterpriseAlwaysSummarises ==
    call.name = "run_enterprise_wave" =>
        /\ pc # "raised"
        /\ EnterpriseReturned =>
              /\ all_results.summary.total_targets = Len(targets)
              /\ all_results.summary.successful + all_results.summary.failed
                     = Len(targets)

-----------------------------------------------------------------------------
(* Termination of execute_wave and run_progressive_waves                   *)

\* A step of the coroutine inside execute_wave or run_progressive_waves.
\* Every await of these two methods is on a coroutine without a suspension
\* point of its own other than asyncio.sleep, so once called the event loop
\* runs the caller on to its next step.
OrchestratorStep ==
    \/ execute_wave_Begin
    \/ execute_wave_NextPhase
    \/ execute_wave_Checkpoint
    \/ execute_phase_Start
    \/ execute_phase_Finish
    \/ execute_wave_Record
    \/ execute_wave_Finish
    \/ run_progressive_waves_NextIteration
    \/ run_progressive_waves_AfterPass

\* Spec with every write returning and the coroutine scheduled until it
\* returns
SpecTermination == Init /\ [][Next]_vars /\ WF_vars(OrchestratorStep)

\* No row of waves is left in_progress
AllWavesTerminal ==
    \A wid \in DOMAIN waves : waves[wid].status \in {"completed", "partial"}

\* C37: with every provider call and every write returning, a call of
\* execute_wave returns with its waves row completed or partial, and a call
\* of run_progressive_waves returns after at most `iterations` passes, each
\* of them with its row completed or partial.
C37_CallsTerminate ==
    /\ (call.name = "execute_wave") ~>
           (/\ pc = "done"
            /\ context.wave_id \in DOMAIN waves
            /\ AllWavesTerminal)
    /\ (call.name = "run_progressive_waves") ~>
           (/\ pc = "done"
            /\ Len(all_results) <= call.iterations
            /\ Len(all_results) = Cardinality(DOMAIN waves)
            /\ AllWavesTerminal)
    /\ [](call.name = "run_progressive_waves" =>
             (iter <= call.iterations /\ Len(all_results) <= iter))

\* run_progressive_waves has returned after two passes of an enterprise
\* wave, the first partial and the second completed
C37_Witness ==
    /\ call.name = "run_progressive_waves"
    /\ pc = "done"
    /\ context.strategy = "enterprise"
    /\ Len(all_results) = 2
    /\ waves[all_results[1].wave_id].status = "partial"
    /\ waves[all_results[2].wave_id].status = "completed"

\* execute_wave alone, on an orchestrator whose strategy_configs table may
\* have been assigned rollback_enabled = False before the call.
InitRollback ==
    /\ \E enabled \in BOOLEAN :
          strategy_configs =
             [s \in WaveStrategy |->
                 [DefaultStrategyConfigs[s] EXCEPT !.rollback_enabled = enabled]]
    /\ phase_agent_map = DefaultPhaseAgentMap
    /\ InitState

NextWave ==
    \/ Call_execute_wave
    \/ execute_wave_Begin
    \/ execute_wave_NextPhase
    \/ execute_wave_Checkpoint
    \/ execute_phase_Start
    \/ execute_phase_Finish
    \/ execute_wave_Record
    \/ execute_wave_Finish

SpecRollback == InitRollback /\ [][NextWave]_vars

====
